---------------------------- MODULE Spec2Model ----------------------------
(***************************************************************************)
(* Model of dials::geometry::transform::FromBeamVectorToDetector           *)
(* (geometry/transform/from_beam_vector_to_detector.h).                    *)
(*                                                                         *)
(* A double is modelled as a pair <<n, d>>: the exact rational n/d in      *)
(* lowest terms with d > 0, or one of the three special values             *)
(* <<1, 0>> (+inf), <<-1, 0>> (-inf) and <<0, 0>> (NaN).  Arithmetic is    *)
(* exact on the finite values (no rounding) and follows IEEE-754 on the    *)
(* special ones.  A vec3 is a 3-tuple and a vec2 a 2-tuple of doubles.     *)
(*                                                                         *)
(* The state is one transform object (obj, its five private fields), the   *)
(* arguments it was constructed from (ctor, empty for the default          *)
(* constructor), the fields as the constructor left them (built), the call *)
(* that has just completed, and whether the object has served a call       *)
(* before that one.                                                        *)
(***************************************************************************)
EXTENDS Integers, Sequences, FiniteSets

VARIABLES obj, ctor, built, call, used

vars == <<obj, ctor, built, call, used>>

---------------------------------------------------------------------------
(* Bounds of the model *)

\* beam vector components are the integers -MaxCoord .. MaxCoord
MaxCoord == 2
\* the distance argument is an integer in -MaxDist .. MaxDist
MaxDist == 1
\* pixel sizes are the integers 1 .. MaxPix, per axis
MaxPix == 2
\* a batch holds 0 .. MaxLen beam vectors
MaxLen == 2
\* scale factors k = n/d with n, d in 1 .. MaxK
MaxK == 2

---------------------------------------------------------------------------
(* double arithmetic *)

Abs(n) == IF n < 0 THEN -n ELSE n

Sign(n) == IF n > 0 THEN 1 ELSE IF n < 0 THEN -1 ELSE 0

RECURSIVE Gcd(_, _)
Gcd(a, b) == IF b = 0 THEN a ELSE Gcd(b, a % b)

\* the double with value n/d (d = 0: an infinity or NaN)
Norm(n, d) ==
    IF d = 0 THEN <<Sign(n), 0>>
    ELSE LET g == Gcd(Abs(n), Abs(d))
             s == Sign(d)
         IN  <<(s * n) \div g, (s * d) \div g>>

\* the double holding the integer n
Num(n) == <<n, 1>>
Zero == Num(0)
NaN == <<0, 0>>
PosInf == <<1, 0>>
NegInf == <<-1, 0>>

IsNaN(a) == a = NaN
IsFinite(a) == a[2] # 0

\* a * b
Mul(a, b) == Norm(a[1] * b[1], a[2] * b[2])

\* a + b (inf + inf of one sign is that inf; inf - inf is NaN)
Add(a, b) ==
    IF a[2] = 0 /\ b[2] = 0
    THEN (IF a = b THEN a ELSE NaN)
    ELSE Norm(a[1] * b[2] + b[1] * a[2], a[2] * b[2])

\* a / b (x/0 is an infinity, 0/0 is NaN)
Div(a, b) ==
    IF b[1] < 0 THEN Mul(a, <<-b[2], -b[1]>>) ELSE Mul(a, <<b[2], b[1]>>)

\* a > b, false when either is NaN
Gt(a, b) ==
    /\ ~IsNaN(a)
    /\ ~IsNaN(b)
    /\ IF a[2] = 0 /\ b[2] = 0 THEN a[1] > b[1]
       ELSE a[1] * b[2] > b[1] * a[2]

\* scitbx vec3 * vec3: the dot product
Dot(u, v) == Add(Add(Mul(u[1], v[1]), Mul(u[2], v[2])), Mul(u[3], v[3]))

\* scitbx vec3 / scalar
VecDiv(v, a) == <<Div(v[1], a), Div(v[2], a), Div(v[3], a)>>

\* sqrt of a double that is a perfect square (the only ones the model takes
\* the root of)
Sqrt(a) ==
    LET r(n) == CHOOSE x \in 0..n : x * x = n
    IN  Norm(r(a[1]), r(a[2]))

\* scitbx vec3::normalize: v / sqrt(v * v)
Normalize(v) == VecDiv(v, Sqrt(Dot(v, v)))

---------------------------------------------------------------------------
(* inputs *)

Coords == (-MaxCoord) .. MaxCoord

\* the beam vectors handed to the scalar apply
BeamVectors == {<<Num(a), Num(b), Num(c)>> : a \in Coords, b \in Coords, c \in Coords}

\* the beam vectors a batch is made of: ahead of the detector, behind it,
\* parallel to it, oblique, and the zero vector
BatchVectors ==
    { <<Num(0), Num(0), Num(1)>>, <<Num(0), Num(0), Num(-1)>>,
      <<Num(1), Num(1), Num(1)>>, <<Num(-1), Num(-1), Num(1)>>,
      <<Num(1), Num(0), Num(0)>>, <<Num(0), Num(0), Num(0)>> }

RECURSIVE SeqsUpTo(_, _)
SeqsUpTo(S, n) ==
    IF n = 0 THEN {<<>>}
    ELSE LET shorter == SeqsUpTo(S, n - 1)
         IN  shorter \cup {Append(s, x) : s \in {t \in shorter : Len(t) = n - 1}, x \in S}

BatchInputs == SeqsUpTo(BatchVectors, MaxLen)

\* detector coordinate systems: orthogonal frames, not all of unit length,
\* whose axes have rational lengths
IdentityDcs ==
    [x_axis |-> <<Num(1), Num(0), Num(0)>>,
     y_axis |-> <<Num(0), Num(1), Num(0)>>,
     normal |-> <<Num(0), Num(0), Num(1)>>]

DetectorCoordinateSystems ==
    { IdentityDcs,
      [x_axis |-> <<Num(2), Num(0), Num(0)>>,
       y_axis |-> <<Num(0), Num(3), Num(0)>>,
       normal |-> <<Num(0), Num(0), Num(2)>>],
      [x_axis |-> <<Num(3), Num(4), Num(0)>>,
       y_axis |-> <<Num(-4), Num(3), Num(0)>>,
       normal |-> <<Num(0), Num(0), Num(1)>>],
      [x_axis |-> <<Num(2), Num(-2), Num(1)>>,
       y_axis |-> <<Num(2), Num(1), Num(-2)>>,
       normal |-> <<Num(1), Num(2), Num(2)>>] }

\* square pixels of every size, and one oblong pixel
PixelSizes == {<<Num(p), Num(p)>> : p \in 1..MaxPix} \cup {<<Num(1), Num(2)>>}

Origins == {<<Num(0), Num(0)>>, <<Num(1), Num(2)>>, <<Num(-1), Num(-1)>>}

Distances == {Num(d) : d \in (-MaxDist) .. MaxDist}

\* what an uninitialised double may hold
GarbageDoubles == {Num(0), Num(1), NaN, PosInf}
GarbageVec3 == {<<a, b, c>> : a \in GarbageDoubles, b \in GarbageDoubles, c \in GarbageDoubles}
\* the uninitialised x_axis_, y_axis_ and origin_, which apply reads only
\* after its assertion on distance_ and normal_: two samples
GarbageRest ==
    { [x_axis |-> <<Num(0), Num(0), Num(0)>>, y_axis |-> <<Num(0), Num(0), Num(0)>>,
       origin |-> <<Num(0), Num(0)>>],
      [x_axis |-> <<NaN, PosInf, Num(1)>>, y_axis |-> <<Num(1), NegInf, NaN>>,
       origin |-> <<NaN, NegInf>>] }

---------------------------------------------------------------------------
(* the class *)

\* FromBeamVectorToDetector(): distance_ is 0.0, the vec3 and vec2 members are
\* default-constructed, which leaves their elements uninitialised
DefaultConstruct(gx, gy, gn, go) ==
    [x_axis |-> gx, y_axis |-> gy, normal |-> gn, origin |-> go, distance |-> Zero]

\* the constructor, had it multiplied the axes by the pixel size
Construct_MultipliesByPixelSize(dcs, pixel_size, origin, distance) ==
    [x_axis   |-> VecDiv(Normalize(dcs.x_axis), Div(Num(1), pixel_size[1])),
     y_axis   |-> VecDiv(Normalize(dcs.y_axis), Div(Num(1), pixel_size[2])),
     normal   |-> Normalize(dcs.normal),
     origin   |-> origin,
     distance |-> distance]

\* FromBeamVectorToDetector(dcs, pixel_size, origin, distance)
Construct(dcs, pixel_size, origin, distance) ==
    [x_axis   |-> VecDiv(Normalize(dcs.x_axis), pixel_size[1]),
     y_axis   |-> VecDiv(Normalize(dcs.y_axis), pixel_size[2]),
     normal   |-> Normalize(dcs.normal),
     origin   |-> origin,
     distance |-> distance]

\* the outcome of a call: it returns a sequence of vec2 (one for the scalar
\* apply), or it throws
Return(vs) == [status |-> "ok", value |-> vs]
Throw(e) == [status |-> e, value |-> <<>>]

\* apply, had it asserted s1_dot_n > 0 without the distance
apply_IgnoresDistanceSign(o, s1) ==
    LET s1_dot_n == Dot(s1, o.normal)
    IN  IF ~Gt(s1_dot_n, Zero)
        THEN Throw("error")
        ELSE Return(<< <<Add(o.origin[1], Div(Mul(o.distance, Dot(s1, o.x_axis)), s1_dot_n)),
                         Add(o.origin[2], Div(Mul(o.distance, Dot(s1, o.y_axis)), s1_dot_n))>> >>)

\* apply, had it asserted distance_ * s1_dot_n >= 0
apply_AcceptsZero(o, s1) ==
    LET s1_dot_n == Dot(s1, o.normal)
    IN  IF Gt(Zero, Mul(o.distance, s1_dot_n)) \/ IsNaN(Mul(o.distance, s1_dot_n))
        THEN Throw("error")
        ELSE Return(<< <<Add(o.origin[1], Div(Mul(o.distance, Dot(s1, o.x_axis)), s1_dot_n)),
                         Add(o.origin[2], Div(Mul(o.distance, Dot(s1, o.y_axis)), s1_dot_n))>> >>)

\* apply, had it projected both coordinates on x_axis_
apply_UsesXAxisTwice(o, s1) ==
    LET s1_dot_n == Dot(s1, o.normal)
    IN  IF ~Gt(Mul(o.distance, s1_dot_n), Zero)
        THEN Throw("error")
        ELSE Return(<< <<Add(o.origin[1], Div(Mul(o.distance, Dot(s1, o.x_axis)), s1_dot_n)),
                         Add(o.origin[2], Div(Mul(o.distance, Dot(s1, o.x_axis)), s1_dot_n))>> >>)

\* apply, had it added origin_[0] to both coordinates
apply_UsesOriginXTwice(o, s1) ==
    LET s1_dot_n == Dot(s1, o.normal)
    IN  IF ~Gt(Mul(o.distance, s1_dot_n), Zero)
        THEN Throw("error")
        ELSE Return(<< <<Add(o.origin[1], Div(Mul(o.distance, Dot(s1, o.x_axis)), s1_dot_n)),
                         Add(o.origin[1], Div(Mul(o.distance, Dot(s1, o.y_axis)), s1_dot_n))>> >>)

\* apply, had it left out the division by s1_dot_n
apply_NoDivision(o, s1) ==
    LET s1_dot_n == Dot(s1, o.normal)
    IN  IF ~Gt(Mul(o.distance, s1_dot_n), Zero)
        THEN Throw("error")
        ELSE Return(<< <<Add(o.origin[1], Mul(o.distance, Dot(s1, o.x_axis))),
                         Add(o.origin[2], Mul(o.distance, Dot(s1, o.y_axis)))>> >>)

\* apply(vec3 s1)
apply(o, s1) ==
    LET s1_dot_n == Dot(s1, o.normal)
    IN  IF ~Gt(Mul(o.distance, s1_dot_n), Zero)
        THEN Throw("error")
        ELSE Return(<< <<Add(o.origin[1], Div(Mul(o.distance, Dot(s1, o.x_axis)), s1_dot_n)),
                         Add(o.origin[2], Div(Mul(o.distance, Dot(s1, o.y_axis)), s1_dot_n))>> >>)

\* the sentinel, had it been (0, 0)
Sentinel_Zero == <<Num(0), Num(0)>>

\* the value written for an element whose apply throws
Sentinel == <<Num(-1), Num(-1)>>

\* a handler for another exception type
Catches_OtherType(e) == e = "bad_alloc"

\* catch (error): the exceptions the batch loop catches
Catches(e) == e = "error"

\* an element of result that the loop has not assigned yet
Unset == <<NaN, NaN>>

\* the loop of apply(flex_vec3_double s1), from index i (0-based) on
RECURSIVE loop(_, _, _, _)
loop(o, s1, i, result) ==
    IF i < Len(s1)
    THEN LET r == apply(o, s1[i + 1])
         IN  IF r.status = "ok"
             THEN loop(o, s1, i + 1, [result EXCEPT ![i + 1] = r.value[1]])
             ELSE IF Catches(r.status)
             THEN loop(o, s1, i + 1, [result EXCEPT ![i + 1] = Sentinel])
             ELSE Throw(r.status)
    ELSE Return(result)

\* the batch apply, had its loop started at index 1
applyBatch_SkipsFirst(o, s1) == loop(o, s1, 1, [i \in 1..Len(s1) |-> Unset])

\* apply(flex_vec3_double s1)
applyBatch(o, s1) == loop(o, s1, 0, [i \in 1..Len(s1) |-> Unset])

---------------------------------------------------------------------------
(* the state machine *)

NoCall == [op |-> "none", arg |-> <<>>, ret |-> Return(<<>>)]

InitDefault ==
    \E g \in GarbageRest, gn \in GarbageVec3 :
        /\ obj = DefaultConstruct(g.x_axis, g.y_axis, gn, g.origin)
        /\ ctor = <<>>

InitConstructed ==
    \E dcs \in DetectorCoordinateSystems, ps \in PixelSizes, og \in Origins, d \in Distances :
        /\ obj = Construct(dcs, ps, og, d)
        /\ ctor = <<dcs, ps, og, d>>

Init ==
    /\ call = NoCall
    /\ used = FALSE
    /\ (InitDefault \/ InitConstructed)
    /\ built = obj

\* the scalar call, had apply written distance_ *= s1_dot_n
ApplyScalar_ScalesDistance ==
    /\ call = NoCall
    /\ \E s1 \in BeamVectors :
        /\ call' = [op |-> "scalar", arg |-> <<s1>>, ret |-> apply(obj, s1)]
        /\ obj' = [obj EXCEPT !.distance = Mul(obj.distance, Dot(s1, obj.normal))]
    /\ UNCHANGED <<ctor, built, used>>

\* a call of apply(vec3): the caller holds no earlier result; the call runs
\* to its return or its throw
ApplyScalar ==
    /\ call = NoCall
    /\ \E s1 \in BeamVectors :
        call' = [op |-> "scalar", arg |-> <<s1>>, ret |-> apply(obj, s1)]
    /\ UNCHANGED <<obj, ctor, built, used>>

\* a call of apply(flex_vec3_double)
ApplyBatch ==
    /\ call = NoCall
    /\ \E s1 \in BatchInputs :
        call' = [op |-> "batch", arg |-> s1, ret |-> applyBatch(obj, s1)]
    /\ UNCHANGED <<obj, ctor, built, used>>

\* the caller is done with the value returned (or the exception thrown): both
\* are temporaries of the caller, the object keeps nothing of a call
Discard ==
    /\ call # NoCall
    /\ call' = NoCall
    /\ used' = TRUE
    /\ UNCHANGED <<obj, ctor, built>>

Next == ApplyScalar \/ ApplyBatch \/ Discard

Spec == Init /\ [][Next]_vars

---------------------------------------------------------------------------
(* the properties *)

\* the constructor arguments of an object built by the four-argument
\* constructor
Initialised == ctor # <<>>
ctorDcs == ctor[1]
ctorPixelSize == ctor[2]
ctorOrigin == ctor[3]
ctorDistance == ctor[4]

\* a <= 0 (false for NaN)
LeZero(a) == ~IsNaN(a) /\ ~Gt(a, Zero)

\* the coordinate (-1, -1)
MinusOnes == <<Num(-1), Num(-1)>>

Scalar == call.op = "scalar"
Batch == call.op = "batch"
Ok == call.ret.status = "ok"
Failed == call.ret.status = "error"

\* scale factors k > 0 and the vector k * s1
ScaleFactors == {Norm(n, d) : n \in 1..MaxK, d \in 1..MaxK}
Scaled(k, v) == <<Mul(k, v[1]), Mul(k, v[2]), Mul(k, v[3])>>

\* C1: on a transform built by the four-argument constructor, the scalar
\* apply throws the geometry error if and only if
\* distance * dot(s1, normal) <= 0, and otherwise returns one finite
\* coordinate pair
C1_FailsIffNotForward ==
    (Scalar /\ Initialised) =>
        LET s1 == call.arg[1]
            p  == Mul(obj.distance, Dot(s1, obj.normal))
        IN  /\ Ok \/ Failed
            /\ Failed <=> LeZero(p)
            /\ Ok => /\ Len(call.ret.value) = 1
                     /\ IsFinite(call.ret.value[1][1])
                     /\ IsFinite(call.ret.value[1][2])

\* C1 witness: a negative distance with a negative dot product, and the call
\* returned
C1_Witness ==
    /\ Scalar /\ Initialised /\ Ok
    /\ Gt(Zero, obj.distance)
    /\ Gt(Zero, Dot(call.arg[1], obj.normal))

\* C2: a successful scalar apply returns
\* (origin.x + distance * dot(s1, x_axis) / s1_dot_n,
\*  origin.y + distance * dot(s1, y_axis) / s1_dot_n), x_axis and y_axis
\* being the normalised axes of the detector divided by the pixel size; for
\* the identity axes, pixel size (1,1), origin (0,0), distance D and
\* s1 = (a,b,c) that is (D*a/c, D*b/c)
C2_Projection ==
    (Scalar /\ Ok /\ Initialised) =>
        LET s1  == call.arg[1]
            xa  == VecDiv(Normalize(ctorDcs.x_axis), ctorPixelSize[1])
            ya  == VecDiv(Normalize(ctorDcs.y_axis), ctorPixelSize[2])
            sdn == Dot(s1, Normalize(ctorDcs.normal))
        IN  /\ obj.x_axis = xa /\ obj.y_axis = ya
            /\ call.ret.value[1] =
                   <<Add(ctorOrigin[1], Div(Mul(ctorDistance, Dot(s1, xa)), sdn)),
                     Add(ctorOrigin[2], Div(Mul(ctorDistance, Dot(s1, ya)), sdn))>>
            /\ (/\ ctorDcs = IdentityDcs
                /\ ctorPixelSize = <<Num(1), Num(1)>>
                /\ ctorOrigin = <<Num(0), Num(0)>>)
               => call.ret.value[1] =
                      <<Norm(ctorDistance[1] * s1[1][1], s1[3][1]),
                        Norm(ctorDistance[1] * s1[2][1], s1[3][1])>>

\* C2 witness: the identity transform with a negative distance has projected
\* a vector with a != b, both non-zero, and c not 1
C2_Witness ==
    /\ Scalar /\ Ok /\ Initialised
    /\ ctorDcs = IdentityDcs
    /\ ctorPixelSize = <<Num(1), Num(1)>>
    /\ ctorOrigin = <<Num(0), Num(0)>>
    /\ ctorDistance = Num(-1)
    /\ call.arg[1] = <<Num(1), Num(-2), Num(-2)>>
    /\ call.ret.value[1] = <<Norm(1, 2), Num(-1)>>

\* C3: the batch apply returns as many elements as it was given, and the
\* element at i is the scalar apply's result on input i where that succeeds
\* and (-1, -1) where it fails
C3_BatchElementwise ==
    Batch =>
        /\ Ok
        /\ Len(call.ret.value) = Len(call.arg)
        /\ \A i \in 1..Len(call.arg) :
               LET r == apply(obj, call.arg[i])
               IN  call.ret.value[i] = IF r.status = "ok" THEN r.value[1] ELSE MinusOnes

\* C3 witness: a batch of two, the first element failed and the second
\* projected to a coordinate other than (-1, -1)
C3_Witness ==
    /\ Batch /\ Ok
    /\ Len(call.arg) = 2
    /\ apply(obj, call.arg[1]).status = "error"
    /\ apply(obj, call.arg[2]).status = "ok"
    /\ call.ret.value[1] = MinusOnes
    /\ call.ret.value[2] # MinusOnes

\* C4: the batch apply always returns: no exception leaves it, and every
\* element after a failing one has been assigned
C4_BatchTotal ==
    Batch =>
        /\ call.ret.status = "ok"
        /\ \A i \in 1..Len(call.arg) : \A j \in 1..Len(call.arg) :
               (i < j /\ apply(obj, call.arg[i]).status # "ok")
                   => (j \in DOMAIN call.ret.value /\ call.ret.value[j] # Unset)

\* C4 witness: every element of a batch of two failed, and the batch
\* returned
C4_Witness ==
    /\ Batch /\ Ok
    /\ Len(call.arg) = 2
    /\ \A i \in 1..2 : apply(obj, call.arg[i]).status = "error"
    /\ Len(call.ret.value) = 2

\* C5 as stated: an output of (-1, -1) at i only if the scalar apply fails on
\* input i
C5_SentinelOnlyOnFailure ==
    Batch =>
        \A i \in 1..Len(call.ret.value) :
            call.ret.value[i] = MinusOnes => apply(obj, call.arg[i]).status = "error"

\* C5 amended: every element the scalar apply fails on is (-1, -1) in the
\* output; an output of (-1, -1) at i comes from a failure on input i or from
\* a successful projection that is itself (-1, -1)
C5_SentinelMarksFailure ==
    Batch =>
        \A i \in 1..Len(call.arg) :
            LET r == apply(obj, call.arg[i])
            IN  /\ r.status = "error" =>
                       (i \in DOMAIN call.ret.value /\ call.ret.value[i] = MinusOnes)
                /\ (i \in DOMAIN call.ret.value /\ call.ret.value[i] = MinusOnes) =>
                       (r.status = "error" \/ r = Return(<<MinusOnes>>))

\* C5 witness: a batch of two whose outputs are both (-1, -1), the first for
\* a failure and the second for a successful projection
C5_Witness ==
    /\ Batch /\ Ok
    /\ Len(call.arg) = 2
    /\ call.ret.value = <<MinusOnes, MinusOnes>>
    /\ apply(obj, call.arg[1]).status = "error"
    /\ apply(obj, call.arg[2]) = Return(<<MinusOnes>>)

\* C6: the transform with origin (ox, oy) succeeds exactly when the one
\* built from the same arguments with origin (0, 0) does, and its result is
\* that one's plus (ox, oy)
C6_OriginShift ==
    (Scalar /\ Initialised) =>
        LET base == apply(Construct(ctorDcs, ctorPixelSize, <<Num(0), Num(0)>>, ctorDistance),
                          call.arg[1])
        IN  /\ call.ret.status = base.status
            /\ Ok => call.ret.value[1] =
                         <<Add(base.value[1][1], ctorOrigin[1]),
                           Add(base.value[1][2], ctorOrigin[2])>>

\* C6 witness: a transform with origin (1, 2) has projected a vector
C6_Witness ==
    /\ Scalar /\ Ok /\ Initialised
    /\ ctorOrigin = <<Num(1), Num(2)>>
    /\ call.ret.value[1] # <<Num(1), Num(2)>>

\* C7: for the identity axes and origin (0, 0), pixel size (p, p) succeeds
\* exactly when pixel size (1, 1) does, and its result is that one's times
\* 1/p
C7_PixelScaling ==
    (/\ Scalar /\ Initialised
     /\ ctorDcs = IdentityDcs
     /\ ctorOrigin = <<Num(0), Num(0)>>
     /\ ctorPixelSize[1] = ctorPixelSize[2]) =>
        LET p    == ctorPixelSize[1]
            base == apply(Construct(ctorDcs, <<Num(1), Num(1)>>, ctorOrigin, ctorDistance),
                          call.arg[1])
        IN  /\ call.ret.status = base.status
            /\ Ok => call.ret.value[1] =
                         <<Mul(base.value[1][1], Div(Num(1), p)),
                           Mul(base.value[1][2], Div(Num(1), p))>>

\* C7 witness: the identity transform with pixel size (2, 2) has projected a
\* vector off the origin in both coordinates
C7_Witness ==
    /\ Scalar /\ Ok /\ Initialised
    /\ ctorDcs = IdentityDcs
    /\ ctorOrigin = <<Num(0), Num(0)>>
    /\ ctorPixelSize = <<Num(2), Num(2)>>
    /\ call.ret.value[1][1] # Zero
    /\ call.ret.value[1][2] # Zero

\* C8: on a default-constructed transform the scalar apply always throws,
\* and the batch apply returns (-1, -1) at every index
C8_DefaultAlwaysFails ==
    ~Initialised =>
        /\ Scalar => (Failed /\ call.ret.value = <<>>)
        /\ Batch => /\ Ok
                    /\ Len(call.ret.value) = Len(call.arg)
                    /\ \A i \in 1..Len(call.arg) : call.ret.value[i] = MinusOnes

\* C8 witness: a default-constructed transform whose normal holds a finite
\* value, an infinity and a NaN has served a batch of two
C8_Witness ==
    /\ ~Initialised
    /\ Batch /\ Ok
    /\ Len(call.arg) = 2
    /\ obj.normal = <<Num(1), PosInf, NaN>>
    /\ call.ret.value = <<MinusOnes, MinusOnes>>

\* C9: for every k > 0 the scalar apply has the same outcome on k * s1 as on
\* s1: the same failure or the same coordinate
C9_ScaleInvariant ==
    Scalar =>
        \A k \in ScaleFactors : apply(obj, Scaled(k, call.arg[1])) = call.ret

\* C9 witness: a vector whose multiples by 2 and by 1/2 differ from it has
\* been projected off the origin of the transform
C9_Witness ==
    /\ Scalar /\ Ok /\ Initialised
    /\ Num(2) \in ScaleFactors
    /\ Norm(1, 2) \in ScaleFactors
    /\ call.arg[1] # Scaled(Num(2), call.arg[1])
    /\ call.ret.value[1] # obj.origin

\* C10: after any sequence of calls the fields of the object are those the
\* constructor left, and the call that has just completed has the outcome
\* that the object as constructed gives for its input
C10_FieldsFixed ==
    /\ obj = built
    /\ Scalar => call.ret = apply(built, call.arg[1])
    /\ Batch => call.ret = applyBatch(built, call.arg)

\* C10 witness: an object that has served an earlier call has completed a
\* failing scalar call and still holds what its constructor stored
C10_Witness ==
    /\ used /\ Initialised
    /\ Scalar /\ Failed
    /\ obj = Construct(ctorDcs, ctorPixelSize, ctorOrigin, ctorDistance)

===========================================================================
